---- MODULE Spec2Model ----
(***************************************************************************)
(* Model of Equalizers/equalizers.py: the Equalizer base class             *)
(* (__init__, convMatrix, equalize) and its two designers, zeroForcing     *)
(* and MMSEEQ.                                                             *)
(*                                                                         *)
(* Conventions.                                                            *)
(*  - numpy vectors are functions over 0..n-1 and matrices are functions   *)
(*    of rows, so that indices are the source's 0-based indices.           *)
(*  - numpy floats are modelled as exact rationals <<num, den>>, den > 0,  *)
(*    in lowest terms; rounding error of the float routines is not         *)
(*    modelled.                                                            *)
(*  - an optional argument (delay=None) is <<>> for None and <<k>> for k.  *)
(***************************************************************************)
EXTENDS Integers, Sequences, FiniteSets, TLC

\* ---------------------------------------------------------------- bounds
MaxN == 2   \* largest tap count N an instance is constructed with
MaxL == 2   \* largest channel impulse response length L passed to design
MaxM == 2   \* largest number of input samples passed to equalize

Taps    == {0, 1}         \* values of the samples of an impulse response h
Inputs  == {-1, 1}        \* values of the samples passed to equalize
Snrs    == {0, 10}        \* snr values (dB) passed to MMSEEQ.design

None    == <<>>
Some(x) == <<x>>

\* ------------------------------------------------------------- rationals
Abs(x) == IF x < 0 THEN -x ELSE x

RECURSIVE GCD(_, _)
GCD(a, b) == IF b = 0 THEN a ELSE GCD(b, a % b)

Rat(n, d) ==
    LET s == IF d < 0 THEN -1 ELSE 1
        g == GCD(Abs(n), Abs(d))
    IN  <<(s * n) \div g, (s * d) \div g>>

R(n)       == <<n, 1>>
Zero       == R(0)
One        == R(1)
RAdd(a, b) == Rat(a[1] * b[2] + b[1] * a[2], a[2] * b[2])
RSub(a, b) == Rat(a[1] * b[2] - b[1] * a[2], a[2] * b[2])
RMul(a, b) == Rat(a[1] * b[1], a[2] * b[2])
RDiv(a, b) == Rat(a[1] * b[2], a[2] * b[1])
RNeg(a)    == <<-a[1], a[2]>>
RLess(a, b) == a[1] * b[2] < b[1] * a[2]

\* f itself. Comparing f with itself makes TLC enumerate the function once,
\* instead of evaluating its defining expression again at every application.
Eager(f) == IF f = f THEN f ELSE f

\* sum of f[lo], ..., f[hi]
RECURSIVE RSum(_, _, _)
RSum(f, lo, hi) == IF hi < lo THEN Zero ELSE RAdd(f[hi], RSum(f, lo, hi - 1))

\* ------------------------------------------------- vectors and matrices
Size(v) == Cardinality(DOMAIN v)

\* np.zeros(n)
zeros(n) == [i \in 0 .. n - 1 |-> Zero]

\* np.hstack((a, b)) of two vectors
hstack(a, b) ==
    [i \in 0 .. Size(a) + Size(b) - 1 |->
        IF i < Size(a) THEN a[i] ELSE b[i - Size(a)]]

\* np.eye(n)
eye(n) == [i \in 0 .. n - 1 |-> [j \in 0 .. n - 1 |-> IF i = j THEN One ELSE Zero]]

\* A.T of an r x c matrix
Transpose(A, r, c) == [j \in 0 .. c - 1 |-> [i \in 0 .. r - 1 |-> A[i][j]]]

\* A @ B, A of shape r x m and B of shape m x c
MatMul(A, B, r, m, c) ==
    Eager([i \in 0 .. r - 1 |-> [j \in 0 .. c - 1 |->
        RSum([k \in 0 .. m - 1 |-> RMul(A[i][k], B[k][j])], 0, m - 1)]])

\* A @ v, A of shape r x m and v of length m
MatVec(A, v, r, m) ==
    Eager([i \in 0 .. r - 1 |->
        RSum([k \in 0 .. m - 1 |-> RMul(A[i][k], v[k])], 0, m - 1)])

\* A + g * B for n x n matrices
MatAddScaled(A, g, B, n) ==
    [i \in 0 .. n - 1 |-> [j \in 0 .. n - 1 |-> RAdd(A[i][j], RMul(g, B[i][j]))]]

\* np.diag(A) of an n x n matrix
diag(A, n) == [i \in 0 .. n - 1 |-> A[i][i]]

\* A with row r and column c struck out (A is n x n)
Minor(A, n, r, c) ==
    [i \in 0 .. n - 2 |-> [j \in 0 .. n - 2 |->
        A[IF i < r THEN i ELSE i + 1][IF j < c THEN j ELSE j + 1]]]

\* determinant of an n x n matrix, by expansion along row 0
RECURSIVE Det(_, _)
Det(A, n) ==
    IF n = 0 THEN One
    ELSE RSum([j \in 0 .. n - 1 |->
                 RMul(IF j % 2 = 0 THEN A[0][j] ELSE RNeg(A[0][j]),
                      Det(Minor(A, n, 0, j), n - 1))], 0, n - 1)

\* np.linalg.inv(A) of a non-singular n x n matrix
inv(A, n) ==
    LET dt == Det(A, n)
    IN  Eager([i \in 0 .. n - 1 |-> [j \in 0 .. n - 1 |->
            RDiv(IF (i + j) % 2 = 0 THEN Det(Minor(A, n, j, i), n - 1)
                 ELSE RNeg(Det(Minor(A, n, j, i), n - 1)), dt)]])

\* np.linalg.pinv(H) of an r x c matrix H that has full column rank or is 0:
\* the Moore-Penrose inverse is (H^T H)^-1 H^T in the first case and the
\* c x r zero matrix in the second. A convolution matrix is always one of
\* the two (its columns are shifts of h).
pinv(H, r, c) ==
    LET Ht == Transpose(H, r, c)
        G  == MatMul(Ht, H, c, r, c)
    IN  IF Det(G, c) # Zero
        THEN MatMul(inv(G, c), Ht, c, c, r)
        ELSE [i \in 0 .. c - 1 |-> [j \in 0 .. r - 1 |-> Zero]]

\* np.argmax(v): index of the first occurrence of the maximum
RECURSIVE argmaxFrom(_, _, _)
argmaxFrom(v, i, best) ==
    IF i >= Size(v) THEN best
    ELSE argmaxFrom(v, i + 1, IF RLess(v[best], v[i]) THEN i ELSE best)

\* mutant of argmax: the index counted from 1
argmaxOneBased(v) == argmaxFrom(v, 1, 0) + 1

\* mutant of argmax: the index of the last occurrence of the maximum
RECURSIVE argmaxLastFrom(_, _, _)
argmaxLastFrom(v, i, best) ==
    IF i >= Size(v) THEN best
    ELSE argmaxLastFrom(v, i + 1, IF RLess(v[i], v[best]) THEN best ELSE i)

argmaxLast(v) == argmaxLastFrom(v, 1, 0)

argmax(v) == argmaxFrom(v, 1, 0)



\* Python item assignment v[k] = x: a negative k counts from the end, and a k
\* outside -n .. n-1 raises IndexError
IndexOk(n, k)  == -n <= k /\ k < n
PyIndex(n, k)  == IF k < 0 THEN k + n ELSE k

RECURSIVE Pow10(_)
Pow10(e) == IF e = 0 THEN 1 ELSE 10 * Pow10(e - 1)

\* ------------------------------------------------------------ Equalizer
VARIABLES
    kind,       \* class of the instance: "zeroForcing" or "MMSEEQ"
    N,          \* self.N
    w,          \* self.w
    opt_delay,  \* self.opt_delay
    attempted,  \* history: design has been called on the instance
    designed,   \* history: a design call on the instance has returned
    call        \* the last call on the instance, its arguments and its result

vars == <<kind, N, w, opt_delay, attempted, designed, call>>

Kinds == {"zeroForcing", "MMSEEQ"}

\* scipy.linalg.toeplitz(c, r): entry (i, j) is c[i-j] on and below the
\* diagonal and r[j-i] above it
toeplitz(c, r) ==
    Eager([i \in 0 .. Size(c) - 1 |-> [j \in 0 .. Size(r) - 1 |->
        IF i >= j THEN c[i - j] ELSE r[j - i]]])

\* mutant of convMatrix: the first row is taken from the first column, as
\* toeplitz does when it is given no row
convMatrixSymmetric(hh, p) ==
    LET col == hstack(hh, zeros(p - 1))
    IN  toeplitz(col, [j \in 0 .. p - 1 |-> col[j]])

\* Equalizer.convMatrix(h, p)
convMatrix(hh, p) ==
    LET col == hstack(hh, zeros(p - 1))
        row == hstack([i \in 0 .. 0 |-> hh[0]], zeros(p - 1))
    IN  toeplitz(col, row)

\* mutant of convolve: mode 'same', which returns max(M, N) samples
convolveSame(a, v) ==
    LET x == IF Size(v) > Size(a) THEN v ELSE a
        y == IF Size(v) > Size(a) THEN a ELSE v
    IN  IF Size(x) = 0 \/ Size(y) = 0
        THEN [outcome |-> "ValueError", value |-> <<>>]
        ELSE [outcome |-> "return",
              value |-> [n \in 0 .. Size(x) - 1 |->
                  RSum([k \in 0 .. Size(x) - 1 |->
                          IF 0 <= n + (Size(y) - 1) \div 2 - k
                             /\ n + (Size(y) - 1) \div 2 - k < Size(y)
                          THEN RMul(x[k], y[n + (Size(y) - 1) \div 2 - k])
                          ELSE Zero],
                       0, Size(x) - 1)]]

\* np.convolve(a, v), mode 'full': the longer argument comes first, an empty
\* argument raises ValueError
convolve(a, v) ==
    LET x == IF Size(v) > Size(a) THEN v ELSE a
        y == IF Size(v) > Size(a) THEN a ELSE v
    IN  IF Size(x) = 0 \/ Size(y) = 0
        THEN [outcome |-> "ValueError", value |-> <<>>]
        ELSE [outcome |-> "return",
              value |-> [n \in 0 .. Size(x) + Size(y) - 2 |->
                  RSum([k \in 0 .. Size(x) - 1 |->
                          IF 0 <= n - k /\ n - k < Size(y)
                          THEN RMul(x[k], y[n - k]) ELSE Zero],
                       0, Size(x) - 1)]]

\* mutant of target: the one is placed one position late
targetShifted(n, k0) == [zeros(n) EXCEPT ![(PyIndex(n, k0) + 1) % n] = One]

\* d = np.zeros(n); d[k0] = 1
target(n, k0) == [zeros(n) EXCEPT ![PyIndex(n, k0)] = One]

\* gamma = 10**(-snr/10), for snr a multiple of 10
gamma(s) == IF s <= 0 THEN R(Pow10((-s) \div 10)) ELSE Rat(1, Pow10(s \div 10))

\* mutant of delayTooLarge: > for >=
delayTooLargeStrict(dly, L, nn) == dly > L + nn - 1

\* the test  delay >= (L+self.N-1)  of an explicit delay
delayTooLarge(dly, L, nn) == dly >= L + nn - 1

\* mutant of resolveDelay: the caller's delay is ignored
resolveDelayIgnored(delay, opt) == opt

\* if delay==None: delay=opt_delay
resolveDelay(delay, opt) == IF delay = None THEN opt ELSE delay[1]

\* d.T @ P @ d
quadForm(d, P, n) ==
    LET Pd == MatVec(P, d, n, n)
    IN  RSum([i \in 0 .. n - 1 |-> RMul(d[i], Pd[i])], 0, n - 1)

\* What a design call does from the computation of opt_delay on, given H
\* and the matrix W that maps d to the weights (Hp for zero forcing,
\* inv(H.T @ H + gamma*I) @ H.T for MMSE). The fields opt_delay and w are
\* the assignments to self the call made before it returned or raised, in
\* the order of the source: self.opt_delay first, self.w last. zeroForcing
\* tests the size of the delay only when the caller gave one (elif, line 68),
\* MMSEEQ tests the resolved delay in every call (if, line 98): always.
designTail(L, nn, H, W, delay, always) ==
    LET n     == L + nn - 1
        P     == MatMul(H, W, n, nn, n)
        score == diag(P, n)
        opt   == argmax(score)
        dly   == resolveDelay(delay, opt)
        raised(exc) == [outcome |-> exc, opt_delay |-> Some(opt), w |-> None,
                        k0 |-> None, d |-> <<>>, MSE |-> None,
                        H |-> H, score |-> score]
    IN  IF (always \/ delay # None) /\ delayTooLarge(dly, L, nn)
        THEN raised("ValueError")
        ELSE IF ~IndexOk(n, dly) THEN raised("IndexError")
        ELSE LET d == target(n, dly)
             IN  [outcome |-> "return", opt_delay |-> Some(opt),
                  w |-> Some(MatVec(W, d, nn, n)),
                  k0 |-> Some(dly), d |-> d,
                  MSE |-> Some(RSub(One, quadForm(d, P, n))),
                  H |-> H, score |-> score]

\* zeroForcing.design(h, delay) on an instance with nn taps
zeroForcing_design(nn, hh, delay) ==
    LET L  == Size(hh)
        H  == convMatrix(hh, nn)
        Hp == pinv(H, L + nn - 1, nn)
    IN  designTail(L, nn, H, Hp, delay, FALSE)

\* MMSEEQ.design(h, snr, delay) on an instance with nn taps
MMSEEQ_design(nn, hh, s, delay) ==
    LET L  == Size(hh)
        n  == L + nn - 1
        H  == convMatrix(hh, nn)
        Ht == Transpose(H, n, nn)
        A  == MatAddScaled(MatMul(Ht, H, nn, n, nn), gamma(s), eye(nn), nn)
    IN  IF Det(A, nn) = Zero
        THEN [outcome |-> "LinAlgError", opt_delay |-> None, w |-> None,
              k0 |-> None, d |-> <<>>, MSE |-> None, H |-> H, score |-> <<>>]
        ELSE designTail(L, nn, H, MatMul(inv(A, nn), Ht, nn, nn, n), delay, TRUE)

\* ------------------------------------------ the arguments of the calls
Channels == UNION {[0 .. L - 1 -> {R(t) : t \in Taps}] : L \in 1 .. MaxL}
Samples  == UNION {[0 .. M - 1 -> {R(x) : x \in Inputs}] : M \in 0 .. MaxM}

\* delays tried on a channel of length L: none, both ends of 0 .. L+N-2, the
\* first two values above it, and the negative values around -(L+N-1)
Delays(n) == {None} \cup {Some(k) : k \in {0, n - 1, n, n + 1, -1, -n, -n - 1}}

ZFArgs ==
    UNION {{<<nn, hh, delay>> : delay \in Delays(Size(hh) + nn - 1)} :
              nn \in 1 .. MaxN, hh \in Channels}
MMSEArgs ==
    UNION {{<<nn, hh, s, delay>> : s \in Snrs,
                                   delay \in Delays(Size(hh) + nn - 1)} :
              nn \in 1 .. MaxN, hh \in Channels}

\* the results of the design calls, computed once per argument tuple
zeroForcing_results == [a \in ZFArgs |-> zeroForcing_design(a[1], a[2], a[3])]
MMSEEQ_results == [a \in MMSEArgs |-> MMSEEQ_design(a[1], a[2], a[3], a[4])]

NoCall == [op |-> "__init__", prior |-> FALSE, h |-> <<>>, snr |-> 0,
           delay |-> None, inputSamples |-> <<>>, outcome |-> "return",
           k0 |-> None, d |-> <<>>, MSE |-> None, H |-> <<>>, score |-> <<>>,
           equalizedSamples |-> <<>>]

\* mutant of Init: the weights start as np.ones(N)
InitOnes ==
    /\ kind \in Kinds
    /\ N \in 1 .. MaxN
    /\ w = [i \in 0 .. N - 1 |-> One]
    /\ opt_delay = 0
    /\ attempted = FALSE
    /\ designed = FALSE
    /\ call = NoCall

\* Equalizer.__init__(N)
Init ==
    /\ kind \in Kinds
    /\ N \in 1 .. MaxN
    /\ w = zeros(N)
    /\ opt_delay = 0
    /\ attempted = FALSE
    /\ designed = FALSE
    /\ call = NoCall

\* the effect on the instance of a design call with result r
Commit(r, hh, s, delay) ==
    /\ opt_delay' = IF r.opt_delay = None THEN opt_delay ELSE r.opt_delay[1]
    /\ w' = IF r.w = None THEN w ELSE r.w[1]
    /\ attempted' = TRUE
    /\ designed' = (designed \/ r.outcome = "return")
    /\ call' = [NoCall EXCEPT !.op = "design", !.prior = designed, !.h = hh,
                              !.snr = s, !.delay = delay,
                              !.outcome = r.outcome, !.k0 = r.k0, !.d = r.d,
                              !.MSE = r.MSE, !.H = r.H, !.score = r.score]
    /\ UNCHANGED <<kind, N>>

DesignZF(hh, delay) ==
    /\ kind = "zeroForcing"
    /\ Commit(zeroForcing_results[<<N, hh, delay>>], hh, 0, delay)

DesignMMSE(hh, s, delay) ==
    /\ kind = "MMSEEQ"
    /\ Commit(MMSEEQ_results[<<N, hh, s, delay>>], hh, s, delay)

\* mutant of Equalize: the output is assigned to self.w
EqualizeStoring(x) ==
    LET r == convolve(x, w)
    IN  /\ call' = [NoCall EXCEPT !.op = "equalize", !.prior = designed,
                                  !.inputSamples = x, !.outcome = r.outcome,
                                  !.equalizedSamples = r.value]
        /\ w' = IF r.outcome = "return" THEN r.value ELSE w
        /\ UNCHANGED <<kind, N, opt_delay, attempted, designed>>

\* Equalizer.equalize(inputSamples)
Equalize(x) ==
    LET r == convolve(x, w)
    IN  /\ call' = [NoCall EXCEPT !.op = "equalize", !.prior = designed,
                                  !.inputSamples = x, !.outcome = r.outcome,
                                  !.equalizedSamples = r.value]
        /\ UNCHANGED <<kind, N, w, opt_delay, attempted, designed>>

Next ==
    \/ \E hh \in Channels : \E delay \in Delays(Size(hh) + N - 1) :
           DesignZF(hh, delay)
    \/ \E hh \in Channels : \E s \in Snrs :
           \E delay \in Delays(Size(hh) + N - 1) : DesignMMSE(hh, s, delay)
    \/ \E x \in Samples : Equalize(x)

Spec == Init /\ [][Next]_vars

\* ================================================================ claims
\* of the last call: the length L of its impulse response, and L+N-1
callL == Size(call.h)
callLen == callL + N - 1
callM == Size(call.inputSamples)
isDesign == call.op = "design"
isEqualize == call.op = "equalize"
returned == call.outcome = "return"

\* the vector of length n with a one at index k and zeros elsewhere
unit(n, k) == [i \in 0 .. n - 1 |-> IF i = k THEN One ELSE Zero]

\* what the last design call would have computed with no delay given
sameCallNoDelay ==
    IF kind = "zeroForcing"
    THEN zeroForcing_results[<<N, call.h, None>>]
    ELSE MMSEEQ_results[<<N, call.h, call.snr, None>>]

\* what the last design call computes, whatever the instance held before
sameCall ==
    IF kind = "zeroForcing"
    THEN zeroForcing_results[<<N, call.h, call.delay>>]
    ELSE MMSEEQ_results[<<N, call.h, call.snr, call.delay>>]

\* C1: a design call that raises leaves self.w and self.opt_delay as they
\* were before the call. (Stated as the claim states it; the code assigns
\* self.opt_delay before it validates the delay.)
C1_FailedDesignLeavesPriorState ==
    [][(call'.op = "design" /\ call'.outcome # "return")
          => (w' = w /\ opt_delay' = opt_delay)]_vars

\* C2: a design call of either designer with an explicit delay >= L+N-1
\* raises ValueError and returns no MSE.
C2_TooLargeDelayRaises ==
    (isDesign /\ call.delay # None /\ call.delay[1] >= callLen)
        => (call.outcome = "ValueError" /\ call.MSE = None)

C2_Witness ==
    /\ isDesign /\ kind = "MMSEEQ" /\ call.prior
    /\ call.delay = Some(callLen)
    /\ call.outcome = "ValueError"

\* C3: an equalize call changes none of self.w, self.opt_delay and self.N.
C3_EqualizeKeepsState ==
    [][call'.op = "equalize"
          => (w' = w /\ opt_delay' = opt_delay /\ N' = N)]_vars

C3_Witness ==
    /\ isEqualize /\ returned /\ call.prior
    /\ w # zeros(N) /\ opt_delay # 0

\* C4 as stated: equalize returns M+N-1 samples for every input length
\* M >= 0, and N-1 zeros for the empty input.
C4_Original ==
    isEqualize =>
        /\ returned
        /\ Size(call.equalizedSamples) = callM + N - 1
        /\ callM = 0 => call.equalizedSamples = zeros(N - 1)

\* C4 as amended: equalize returns M+N-1 samples for every input of length
\* M >= 1; for the empty input it raises ValueError and returns nothing.
C4_EqualizeLength ==
    isEqualize =>
        IF callM >= 1
        THEN returned /\ Size(call.equalizedSamples) = callM + N - 1
        ELSE call.outcome = "ValueError" /\ call.equalizedSamples = <<>>

C4_Witness ==
    /\ isEqualize /\ returned /\ designed
    /\ callM >= 2 /\ N >= 2
    /\ Size(call.equalizedSamples) = callM + N - 1

C6_Original ==
    (isDesign /\ returned) =>
        /\ call.k0[1] \in 0 .. callLen - 1
        /\ call.d = unit(callLen, call.k0[1])
        /\ call.delay # None => call.delay[1] \in 0 .. callLen - 1

\* C6 as amended: in a design call that returned, k0 is the caller's delay if
\* given and opt_delay otherwise, it is in -(L+N-1) .. L+N-2, and d is the unit
\* vector of length L+N-1 with its one at index k0, an index below 0 counting
\* from the end; with no delay given k0 is in 0 .. L+N-2. A call with an
\* explicit delay returns exactly when the delay is in -(L+N-1) .. L+N-2.
C6_TargetVector ==
    /\ (isDesign /\ returned) =>
          /\ call.k0 = (IF call.delay = None THEN Some(opt_delay) ELSE call.delay)
          /\ call.k0[1] \in -callLen .. callLen - 1
          /\ call.d = unit(callLen, IF call.k0[1] >= 0 THEN call.k0[1]
                                    ELSE callLen + call.k0[1])
          /\ call.delay = None => call.k0[1] \in 0 .. callLen - 1
    /\ (isDesign /\ call.delay # None) =>
          (returned <=> call.delay[1] \in -callLen .. callLen - 1)

C6_Witness ==
    /\ isDesign /\ returned /\ callLen >= 3
    /\ call.delay = Some(-1)
    /\ call.d = unit(callLen, callLen - 1)

\* C7: the convolution matrix H a design call builds from h has L+N-1 rows
\* and N columns, and H[i,j] = h[i-j] if 0 <= i-j < L and 0 otherwise.
C7_ConvMatrixEntries ==
    isDesign =>
        /\ DOMAIN call.H = 0 .. callLen - 1
        /\ \A i \in 0 .. callLen - 1 :
              /\ DOMAIN call.H[i] = 0 .. N - 1
              /\ \A j \in 0 .. N - 1 :
                    call.H[i][j] = IF 0 <= i - j /\ i - j < callL
                                   THEN call.h[i - j] ELSE Zero

C7_Witness ==
    /\ isDesign /\ callL >= 2 /\ N >= 2
    /\ call.h[0] # Zero /\ call.h[1] # Zero
    /\ call.H[1][0] = call.h[1] /\ call.H[0][1] = Zero

\* C8: until a design call has returned, w is the zero vector of length N,
\* and equalize of M >= 1 samples returns M+N-1 zeros.
C8_ZeroWeightsUntilDesigned ==
    ~designed =>
        /\ w = zeros(N)
        /\ (isEqualize /\ callM >= 1) =>
              (returned /\ call.equalizedSamples = zeros(callM + N - 1))

C8_Witness ==
    /\ ~designed /\ attempted /\ opt_delay # 0
    /\ isEqualize /\ callM >= 1 /\ returned

\* C9: every design call stores in opt_delay the lowest index in 0 .. L+N-2
\* at which the fidelity score is maximal, and that value, like the scores, is
\* the one the call with the same h (and snr) and no delay computes.
C9_OptDelayIsFirstArgmax ==
    (isDesign /\ call.outcome # "LinAlgError") =>
        /\ DOMAIN call.score = 0 .. callLen - 1
        /\ opt_delay \in 0 .. callLen - 1
        /\ \A j \in 0 .. callLen - 1 : ~RLess(call.score[opt_delay], call.score[j])
        /\ \A j \in 0 .. opt_delay - 1 : RLess(call.score[j], call.score[opt_delay])
        /\ call.score = sameCallNoDelay.score
        /\ Some(opt_delay) = sameCallNoDelay.opt_delay

C9_Witness ==
    /\ isDesign /\ call.prior /\ call.outcome = "ValueError"
    /\ opt_delay > 0 /\ opt_delay < callLen - 1
    /\ call.score[opt_delay + 1] = call.score[opt_delay]

\* C10: after a design call that returned, w is the solution of the normal
\* equations for the unit target at the caller's delay if one was given and at
\* opt_delay otherwise: (H^T H + gamma I) w = H^T d for MMSE, H^T H w = H^T d
\* for zero forcing (w = 0 for the zero channel); and w is what the call
\* computes from its own arguments.
C10_WeightsSolveForUsedDelay ==
    (isDesign /\ returned) =>
        LET k  == IF call.delay = None THEN opt_delay ELSE call.delay[1]
            e  == unit(callLen, PyIndex(callLen, k))
            Ht == Transpose(call.H, callLen, N)
            G  == MatMul(Ht, call.H, N, callLen, N)
            A  == IF kind = "MMSEEQ"
                  THEN MatAddScaled(G, gamma(call.snr), eye(N), N) ELSE G
        IN  /\ DOMAIN w = 0 .. N - 1
            /\ IF call.h = zeros(callL) /\ kind = "zeroForcing"
               THEN w = zeros(N)
               ELSE MatVec(A, w, N, N) = MatVec(Ht, e, N, callLen)
            /\ Some(w) = sameCall.w

C10_Witness ==
    /\ isDesign /\ returned /\ call.prior
    /\ call.delay = Some(0) /\ opt_delay # 0
    /\ w # zeros(N)

====
